---- MODULE Spec2Model ----
(***************************************************************************)
(* Hierarchical federated-learning communication layer of FedLab:          *)
(*   - the passive and the active client managers                          *)
(*       (src/fedlab_core/client/manager.py)                               *)
(*   - the two connectors of a middle-tier scheduler, ClientConnector and  *)
(*     ServerConnector, joined by their two message queues                 *)
(*       (src/fedlab/core/server/hierarchical/connector.py)                *)
(* The Coordinator class (fedlab/core/coordinator.py) and the lifecycle    *)
(* driver NetworkManager.run are not part of the sources at hand; they are *)
(* modelled from the written specification (sections 4.1 and 4.2).         *)
(***************************************************************************)
EXTENDS Integers, Sequences, FiniteSets, TLC

(***************************************************************************)
(* Bounds of the model                                                     *)
(***************************************************************************)
\* envelopes the server delivers to one client before the model stops it
MaxRounds == 3
\* largest generation timestamp carried in a payload
MaxTime == 1

(***************************************************************************)
(* Values                                                                  *)
(***************************************************************************)
\* self.model_gen_time = None
NoneVal == -1

\* the message codes the client managers name (MessageCode.*)
ParameterRequest == "ParameterRequest"
ParameterUpdate == "ParameterUpdate"
Exit == "Exit"

\* serialized model parameters are abstracted to two values
Params == {0, 1}
Times == 0..MaxTime

\* Payloads a server may put in an envelope for a client: none, the serialized
\* parameters alone, or the parameters followed by the generation timestamp.
ClientPayloads ==
    {<<>>} \cup {<<p>> : p \in Params} \cup {<<p, t>> : p \in Params, t \in Times}

\* What recv_package(src=0) can return to a client: (sender_rank, code, payload)
\* An Exit envelope comes without content or with a full payload.
ServerEnvelopes ==
    {[sender |-> 0, code |-> Exit, payload |-> pl] : pl \in {<<>>, <<0, 0>>}}
    \cup {[sender |-> 0, code |-> ParameterUpdate, payload |-> pl] : pl \in ClientPayloads}

NoEnvelope == [sender |-> 0, code |-> "none", payload |-> <<>>]

\* One transport-level event of a client process, in program order.
Event(ev, code, content, peer) ==
    [ev |-> ev, code |-> code, content |-> content, peer |-> peer]

VARIABLES
    \* ---- ClientPassiveManager ----
    p_pc,            \* position in run(): "start","recv","on_receive","synchronize","exited","error"
    p_msg,           \* (sender_rank, message_code, payload) of the last recv_package
    p_model,         \* self._handler.model, serialized
    p_trace,         \* transport and training events of the process, in order
    \* ---- ClientActiveManager ----
    a_pc,            \* "start","request","recv","on_receive","synchronize","exited","error"
    a_msg,
    a_model,
    model_gen_time,  \* self.model_gen_time
    a_trace

passiveVars == <<p_pc, p_msg, p_model, p_trace>>
activeVars == <<a_pc, a_msg, a_model, model_gen_time, a_trace>>

NumEv(trace, ev) == Cardinality({i \in DOMAIN trace : trace[i].ev = ev})

(***************************************************************************)
(* ClientPassiveManager                                                    *)
(***************************************************************************)
PassiveInit ==
    /\ p_pc = "start"
    /\ p_msg = NoEnvelope
    /\ p_model = 0
    /\ p_trace = <<>>

\* (mutation) the loop body starts with synchronize() instead of recv_package()
Passive_init_SynchronizeFirst ==
    /\ p_pc = "start"
    /\ p_pc' = "synchronize"
    /\ UNCHANGED <<p_msg, p_model, p_trace>>

\* run(): self._network.init_network_connection(), then the loop is entered
Passive_init_network_connection ==
    /\ p_pc = "start"
    /\ p_pc' = "recv"
    /\ UNCHANGED <<p_msg, p_model, p_trace>>

\* (mutation) the Exit test is missing: every envelope is trained on
Passive_after_recv_NoExitTest(code) == "on_receive"

\* Where run() goes once recv_package has returned `code`.
Passive_after_recv(code) == IF code = Exit THEN "exited" ELSE "on_receive"

\* run(): recv_package(src=0), then the Exit test; exit(0) ends the process
Passive_recv_package ==
    /\ p_pc = "recv"
    /\ NumEv(p_trace, "recv") < MaxRounds
    /\ \E env \in ServerEnvelopes :
         /\ p_msg' = env
         /\ p_trace' = Append(p_trace, Event("recv", env.code, env.payload, env.sender))
         /\ p_pc' = Passive_after_recv(env.code)
    /\ UNCHANGED p_model

\* on_receive(): s_parameters = payload[0]; self._handler.train(...)
\* payload[0] of an empty payload raises IndexError and ends the process.
\* The trainer is external: the trained model is any parameter value.
Passive_on_receive ==
    /\ p_pc = "on_receive"
    /\ IF Len(p_msg.payload) = 0
       THEN /\ p_pc' = "error"
            /\ UNCHANGED <<p_model, p_trace>>
       ELSE /\ \E trained \in Params : p_model' = trained
            /\ p_trace' = Append(p_trace, Event("train", p_msg.code, <<p_msg.payload[1]>>, 0))
            /\ p_pc' = "synchronize"
    /\ UNCHANGED p_msg

\* The package synchronize() builds: Package(ParameterUpdate, content=model_params)
Passive_pack == [code |-> ParameterUpdate, content |-> <<p_model>>, dst |-> 0]

\* synchronize(): send_package(pack, dst=0), then back to the top of the loop
Passive_synchronize ==
    /\ p_pc = "synchronize"
    /\ p_trace' = Append(p_trace,
                    Event("send", Passive_pack.code, Passive_pack.content, Passive_pack.dst))
    /\ p_pc' = "recv"
    /\ UNCHANGED <<p_msg, p_model>>


(***************************************************************************)
(* ClientActiveManager                                                     *)
(***************************************************************************)
ActiveInit ==
    /\ a_pc = "start"
    /\ a_msg = NoEnvelope
    /\ a_model = 0
    /\ model_gen_time = NoneVal
    /\ a_trace = <<>>

Active_init_network_connection ==
    /\ a_pc = "start"
    /\ a_pc' = "request"
    /\ UNCHANGED <<a_msg, a_model, model_gen_time, a_trace>>

\* request_model(): Package(ParameterRequest) with no content, sent to rank 0
Active_request_pack == [code |-> ParameterRequest, content |-> <<>>, dst |-> 0]

Active_request_model ==
    /\ a_pc = "request"
    /\ NumEv(a_trace, "recv") < MaxRounds
    /\ a_trace' = Append(a_trace,
                    Event("send", Active_request_pack.code, Active_request_pack.content,
                          Active_request_pack.dst))
    /\ a_pc' = "recv"
    /\ UNCHANGED <<a_msg, a_model, model_gen_time>>

Active_after_recv(code) == IF code = Exit THEN "exited" ELSE "on_receive"

\* run(): recv_package(src=0), then the Exit test; exit(0) ends the process
Active_recv_package ==
    /\ a_pc = "recv"
    /\ \E env \in ServerEnvelopes :
         /\ a_msg' = env
         /\ a_trace' = Append(a_trace, Event("recv", env.code, env.payload, env.sender))
         /\ a_pc' = Active_after_recv(env.code)
    /\ UNCHANGED <<a_model, model_gen_time>>

\* (mutation) the timestamp is read from the wrong payload element
Active_gen_time_WrongIndex(payload) == payload[1]

\* on_receive(): self.model_gen_time = payload[1]
Active_gen_time(payload) == payload[2]

\* on_receive(): s_parameters = payload[0]; self.model_gen_time = payload[1];
\* self._handler.train(...). A payload shorter than two elements raises
\* IndexError before training and ends the process.
Active_on_receive ==
    /\ a_pc = "on_receive"
    /\ IF Len(a_msg.payload) < 2
       THEN /\ a_pc' = "error"
            /\ UNCHANGED <<a_model, model_gen_time, a_trace>>
       ELSE /\ model_gen_time' = Active_gen_time(a_msg.payload)
            /\ \E trained \in Params : a_model' = trained
            /\ a_trace' = Append(a_trace, Event("train", a_msg.code, <<a_msg.payload[1]>>, 0))
            /\ a_pc' = "synchronize"
    /\ UNCHANGED a_msg

\* synchronize(): pack.append_tensor_list([model_params, self.model_gen_time])
Active_pack ==
    [code |-> ParameterUpdate, content |-> <<a_model, model_gen_time>>, dst |-> 0]

\* (mutation) after synchronize() the loop goes straight to recv_package(),
\* without a new request_model()
Active_synchronize_NoRequest ==
    /\ a_pc = "synchronize"
    /\ NumEv(a_trace, "recv") < MaxRounds
    /\ a_trace' = Append(a_trace,
                    Event("send", ParameterUpdate, <<a_model, model_gen_time>>, 0))
    /\ a_pc' = "recv"
    /\ UNCHANGED <<a_msg, a_model, model_gen_time>>

Active_synchronize ==
    /\ a_pc = "synchronize"
    /\ a_trace' = Append(a_trace,
                    Event("send", Active_pack.code, Active_pack.content, Active_pack.dst))
    /\ a_pc' = "request"
    /\ UNCHANGED <<a_msg, a_model, model_gen_time>>



(***************************************************************************)
(* The middle tier: ClientConnector and ServerConnector                    *)
(*                                                                         *)
(* A scheduler wires the two connectors through two queues:                *)
(*   mq_up   = ClientConnector.mq_write = ServerConnector.mq_read          *)
(*   mq_down = ServerConnector.mq_write = ClientConnector.mq_read          *)
(* The lower transport group holds the ClientConnector (rank 0) and the    *)
(* child ranks 1..world_size-1; the upper group holds the server (rank 0)  *)
(* and the ServerConnector.  Child ranks and the server are environment:   *)
(* a blocking recv returns when the peer's next message is delivered.      *)
(***************************************************************************)
\* self._network.world_size of the lower transport group: rank 0 and two child ranks
world_size == 3
\* envelopes a child rank sends after its declaration
MaxTraffic == 2
\* envelopes the server sends down to the ServerConnector
MaxDown == 1

ChildRanks == 1..(world_size - 1)
Pow2(n) == 2 ^ n
\* the smallest positive integer that no float32 holds
BigId == Pow2(24) + 1
\* the integers a child rank may declare in the handshake
DeclIds == {0, BigId}

\* what child rank r may declare: the last rank declares BigId, a rank before it
\* 0 or, as the last rank does, BigId
Declares(r) == IF r = world_size - 1 THEN {BigId} ELSE DeclIds

\* self.coordinator = None
NoCoordinator == [none |-> TRUE]

SeqsUpTo(S, n) == UNION {[1..k -> S] : k \in 0..n}
\* the id lists of broadcasts: up to two declared ids, repetitions included, and
\* lists that name 2, which no rank declares, alone or after a declared id
IdLists == SeqsUpTo(DeclIds, 2) \cup {<<2>>, <<0, 2>>}

\* The k-th message of child rank r: its identity declaration first (k = 0, a
\* one-element tensor holding the declared integer), training traffic afterwards.
ChildMessages(r, k) ==
    IF k = 0
    THEN {[sender |-> r, code |-> "SetUp", payload |-> <<<<id>>>>] : id \in Declares(r)}
    ELSE {[sender |-> r, code |-> ParameterUpdate, payload |-> <<<<10 * r + k>>>>]}

\* the id lists of an Exit: one declared id
ExitIdLists == [1..1 -> DeclIds]

\* the payloads of a code: no content, or a tensor of target LogicalIds followed
\* by the rest of the payload
DownPayloads(code) ==
    {<<>>} \cup {<<ids, <<0>>>> : ids \in IF code = Exit THEN ExitIdLists ELSE IdLists}

\* What the server sends down: a broadcast of parameters or an Exit.
DownEnvelopes ==
    UNION {{[sender |-> 0, code |-> c, payload |-> pl] : pl \in DownPayloads(c)} :
               c \in {ParameterUpdate, Exit}}

\* the arguments on_receive is called with: a broadcast to LogicalId 0 and an
\* Exit without content
HandlerTuples ==
    {[sender |-> 0, code |-> ParameterUpdate, payload |-> <<<<0>>, <<0>>>>],
     [sender |-> 0, code |-> Exit, payload |-> <<>>]}

VARIABLES
    \* ---- lower transport group (environment) ----
    child_sent,          \* per child rank: messages of that rank already delivered
    silent,              \* child ranks that never send anything
    \* ---- ClientConnector ----
    cc_pc,               \* main thread: "init","setup","ready","recv","dead"
    cc_caller,           \* who called the setup() in progress: "run" or "main_loop"
    cc_rank,             \* loop variable of setup()
    rank_client_id_map,  \* local of setup()
    setup_recv,          \* ranks setup() has received from, in order, in this call
    coordinator,         \* self.coordinator
    has_handler,         \* self._handler is not None
    client_num_in_total, \* self._handler.client_num_in_total
    cc_err,              \* exception that ended the main thread, or "none"
    cc_drain,            \* deal_queue thread: "unstarted","get","send","dead"
    cc_drain_err,        \* exception that ended the deal_queue thread, or "none"
    cc_last,             \* last item deal_queue took and the sends it issued for it
    cc_todo,             \* items of rank_dict the for loop of deal_queue has yet to send
    \* ---- the queues ----
    mq_up,
    mq_down,
    \* ---- ServerConnector ----
    sc_pc,               \* main thread: "init","ready","recv","dead"
    sc_drain,            \* deal_queue thread: "unstarted","get","send","dead"
    down_count,          \* envelopes the server has sent down
    down_last,           \* (sender, message_code, payload) of the last recv_package
    sc_handled,          \* calls of ServerConnector.on_receive made so far
    \* ---- observation of the upward path ----
    up_recv,             \* envelopes ClientConnector.main_loop received, in order
    up_taken,            \* items ServerConnector.deal_queue took off the queue, in order
    up_sent              \* sends ServerConnector.deal_queue issued, in order

VARIABLES
    \* ---- a Coordinator on its own ----
    co_handshake,        \* the handshake results the Coordinator was constructed from
    co_map,              \* its Rank -> set-of-LogicalId mapping
    co_total,            \* what total() returns
    co_err,              \* failure of the construction, or "none"
    co_call              \* the last call of map_id_list: input, result, failure

coVars == <<co_handshake, co_map, co_total, co_err, co_call>>
ccVars == <<cc_pc, cc_caller, cc_rank, rank_client_id_map, setup_recv, coordinator,
            has_handler, client_num_in_total, cc_err, cc_drain, cc_drain_err, cc_last, cc_todo>>
scVars == <<sc_pc, sc_drain, down_count, down_last, sc_handled>>
relayVars == <<child_sent, silent, ccVars, mq_up, mq_down, scVars, up_recv, up_taken, up_sent>>
vars == <<passiveVars, activeVars, relayVars, coVars>>

(***************************************************************************)
(* Coordinator (modelled from the specification, section 4.2)              *)
(***************************************************************************)
\* build(handshakeResults: Rank -> LogicalId): the Rank -> set-of-LogicalId mapping
CoordinatorBuild(setup_dict) == [r \in DOMAIN setup_dict |-> {setup_dict[r]}]

\* build fails with DuplicateIdentity if two ranks report overlapping LogicalIds
DuplicateIdentity(setup_dict) ==
    \E r1, r2 \in DOMAIN setup_dict : r1 # r2 /\ setup_dict[r1] = setup_dict[r2]

\* (mutation) total() counts the ranks instead of the LogicalIds
CoordinatorTotal_Ranks(coord) == Cardinality(DOMAIN coord)

\* total(): count of distinct LogicalIds known
CoordinatorTotal(coord) == Cardinality(UNION {coord[r] : r \in DOMAIN coord})

KnownIds(coord) == UNION {coord[r] : r \in DOMAIN coord}

\* mapIdList fails with UnknownIdentity if any id is not present
UnknownIdentity(coord, id_list) ==
    \E i \in DOMAIN id_list : id_list[i] \notin KnownIds(coord)

OwnerOf(coord, id) == CHOOSE r \in DOMAIN coord : id \in coord[r]

\* the owning ranks of the ids of id_list, each once, in order of first appearance
RECURSIVE OwnersInOrder(_, _, _)
OwnersInOrder(coord, id_list, seen) ==
    IF id_list = <<>> THEN <<>>
    ELSE LET r == OwnerOf(coord, Head(id_list)) IN
         IF r \in seen
         THEN OwnersInOrder(coord, Tail(id_list), seen)
         ELSE <<r>> \o OwnersInOrder(coord, Tail(id_list), seen \cup {r})

\* (mutation) the ids of a group are returned last first
map_id_list_Reversed(coord, id_list) ==
    LET owners == OwnersInOrder(coord, id_list, {}) IN
    [i \in DOMAIN owners |->
        [rank |-> owners[i],
         values |-> LET v == SelectSeq(id_list, LAMBDA id : id \in coord[owners[i]])
                    IN  [k \in DOMAIN v |-> v[Len(v) + 1 - k]]]]

\* mapIdList(ids): groups the requested LogicalIds by owning Rank, preserving the
\* relative order within each group; here as the sequence of (rank, values) items
map_id_list(coord, id_list) ==
    LET owners == OwnersInOrder(coord, id_list, {}) IN
    [i \in DOMAIN owners |->
        [rank |-> owners[i],
         values |-> SelectSeq(id_list, LAMBDA id : id \in coord[owners[i]])]]

\* the ranks and LogicalIds a Coordinator on its own is exercised with
CoRanks == 1..2
CoIds == 0..3
\* handshake results in the general form of the data model: a rank announces a
\* set of LogicalIds (one id per rank is the case the ClientConnector produces)
CoHandshakes == [CoRanks -> (SUBSET CoIds) \ {{}}]
CoIdLists == SeqsUpTo(CoIds, 3)

\* two ranks report overlapping LogicalId sets
Overlapping(handshake) ==
    \E r1, r2 \in DOMAIN handshake : r1 # r2 /\ handshake[r1] \cap handshake[r2] # {}

NoCall == [ids |-> <<>>, out |-> <<>>, err |-> "nocall"]

CoordinatorInit ==
    /\ co_handshake = <<>>
    /\ co_map = NoCoordinator
    /\ co_total = NoneVal
    /\ co_err = "none"
    /\ co_call = NoCall

\* build: the mapping is populated from the handshake results, or the
\* construction fails with DuplicateIdentity; total() is read once it is built
Coordinator_build ==
    /\ co_map = NoCoordinator
    /\ co_err = "none"
    /\ \E handshake \in CoHandshakes :
         /\ co_handshake' = handshake
         /\ IF Overlapping(handshake)
            THEN /\ co_err' = "DuplicateIdentity"
                 /\ UNCHANGED <<co_map, co_total>>
            ELSE /\ co_map' = handshake
                 /\ co_total' = CoordinatorTotal(handshake)
                 /\ UNCHANGED co_err
    /\ UNCHANGED co_call

\* one call of mapIdList on the built mapping
Coordinator_map_id_list ==
    /\ co_map # NoCoordinator
    /\ \E id_list \in CoIdLists :
         co_call' = IF UnknownIdentity(co_map, id_list)
                    THEN [ids |-> id_list, out |-> <<>>, err |-> "UnknownIdentity"]
                    ELSE [ids |-> id_list, out |-> map_id_list(co_map, id_list),
                          err |-> "none"]
    /\ UNCHANGED <<co_handshake, co_map, co_total, co_err>>

(***************************************************************************)
(* ClientConnector                                                         *)
(***************************************************************************)
NoItem == [sender |-> 0, code |-> "none", payload |-> <<>>]
NoLast == [item |-> NoItem, sends |-> <<>>]

RelayInit ==
    /\ child_sent = [r \in ChildRanks |-> 0]
    /\ silent = {}
    /\ cc_pc = "init"
    /\ cc_caller = "none"
    /\ cc_rank = 0
    /\ rank_client_id_map = <<>>
    /\ setup_recv = <<>>
    /\ coordinator = NoCoordinator
    /\ has_handler \in BOOLEAN
    /\ client_num_in_total = NoneVal
    /\ cc_err = "none"
    /\ cc_drain = "unstarted"
    /\ cc_drain_err = "none"
    /\ cc_last = NoLast
    /\ cc_todo = <<>>
    /\ mq_up = <<>>
    /\ mq_down = <<>>
    /\ sc_pc = "init"
    /\ sc_drain = "unstarted"
    /\ down_count = 0
    /\ down_last = NoItem
    /\ sc_handled = 0
    /\ up_recv = <<>>
    /\ up_taken = <<>>
    /\ up_sent = <<>>

\* setup() is entered: rank_client_id_map = {} and the loop starts at its first rank
CC_setup_begin(caller) ==
    /\ cc_caller' = caller
    /\ rank_client_id_map' = <<>>
    /\ setup_recv' = <<>>
    /\ cc_rank' = 1
    /\ cc_pc' = "setup"

\* the lifecycle driver calls setup() before main_loop() (specification, 4.1)
CC_run_setup ==
    /\ cc_pc = "init"
    /\ CC_setup_begin("run")
    /\ UNCHANGED <<child_sent, silent, coordinator, has_handler, client_num_in_total, cc_err,
                   cc_drain, cc_drain_err, cc_last, cc_todo, mq_up, mq_down, scVars,
                   up_recv, up_taken, up_sent>>

\* (mutation) main_loop() starts the deal_queue thread before it calls setup()
CC_main_loop_ThreadFirst ==
    /\ cc_pc \in {"init", "ready"}
    /\ CC_setup_begin("main_loop")
    /\ cc_drain' = "get"
    /\ UNCHANGED <<child_sent, silent, coordinator, has_handler, client_num_in_total,
                   cc_err, cc_drain_err, cc_last, cc_todo, mq_up, mq_down, scVars,
                   up_recv, up_taken, up_sent>>

\* main_loop(): its first statement is self.setup()
CC_main_loop ==
    /\ cc_pc \in {"init", "ready"}
    /\ CC_setup_begin("main_loop")
    /\ UNCHANGED <<child_sent, silent, coordinator, has_handler, client_num_in_total, cc_err,
                   cc_drain, cc_drain_err, cc_last, cc_todo, mq_up, mq_down, scVars,
                   up_recv, up_taken, up_sent>>

\* (mutation) the loop of setup() stops one rank early: range(1, world_size - 1)
CC_setup_next_rank_SkipsLast(rank) == IF rank + 1 < world_size - 1 THEN rank + 1 ELSE 0

\* the rank the loop of setup() turns to after `rank`, or 0 when the loop is over:
\* for rank in range(1, self._network.world_size)
CC_setup_next_rank(rank) == IF rank + 1 < world_size THEN rank + 1 ELSE 0

\* where the main thread is once setup() has returned to `caller`
CC_after_setup(caller) == IF caller = "main_loop" THEN "recv" ELSE "ready"

\* the deal_queue thread once setup() has returned to `caller`:
\* main_loop() starts it right after self.setup()
CC_thread_after_setup(caller) == IF caller = "main_loop" THEN "get" ELSE cc_drain

\* if self._handler is not None: self._handler.client_num_in_total = self.coordinator.total
CC_handler_total(coord) ==
    IF has_handler THEN CoordinatorTotal(coord) ELSE client_num_in_total

\* (mutation) a failure of the Coordinator's construction is caught and ignored
CC_build_raises_Caught(setup_dict) == FALSE

\* self.coordinator = Coordinator(rank_client_id_map) is not guarded: an
\* exception of the construction leaves setup() and ends the calling thread
CC_build_raises(setup_dict) == DuplicateIdentity(setup_dict)

\* setup(): one pass of the loop, _, _, content = recv(src=rank) and
\* rank_client_id_map[rank] = content[0].item(); after the last rank the
\* Coordinator is built, the handler is told the total and setup() returns.
CC_setup_recv ==
    /\ cc_pc = "setup"
    /\ cc_rank \notin silent
    /\ child_sent[cc_rank] < 1 + MaxTraffic
    /\ \E env \in ChildMessages(cc_rank, child_sent[cc_rank]) :
         LET setup_dict == (cc_rank :> env.payload[1][1]) @@ rank_client_id_map
             next == CC_setup_next_rank(cc_rank)
         IN
         /\ child_sent' = [child_sent EXCEPT ![cc_rank] = @ + 1]
         /\ rank_client_id_map' = setup_dict
         /\ setup_recv' = Append(setup_recv, env.sender)
         /\ cc_rank' = next
         /\ IF next # 0
            THEN UNCHANGED <<cc_pc, cc_caller, coordinator, client_num_in_total,
                             cc_err, cc_drain>>
            ELSE IF CC_build_raises(setup_dict)
            THEN /\ cc_pc' = "dead"
                 /\ cc_err' = "DuplicateIdentity"
                 /\ UNCHANGED <<cc_caller, coordinator, client_num_in_total, cc_drain>>
            ELSE /\ coordinator' = CoordinatorBuild(setup_dict)
                 /\ client_num_in_total' = CC_handler_total(CoordinatorBuild(setup_dict))
                 /\ cc_pc' = CC_after_setup(cc_caller)
                 /\ cc_drain' = CC_thread_after_setup(cc_caller)
                 /\ UNCHANGED <<cc_caller, cc_err>>
    /\ UNCHANGED <<silent, has_handler, cc_drain_err, cc_last, cc_todo, mq_up, mq_down, scVars,
                   up_recv, up_taken, up_sent>>

\* (mutation) the sender rank of the envelope is not kept in the queued tuple
CC_queue_item_NoSender(env) == [sender |-> 0, code |-> env.code, payload |-> env.payload]

\* the tuple main_loop() puts on mq_write for a received envelope
CC_queue_item(env) == [sender |-> env.sender, code |-> env.code, payload |-> env.payload]

\* main_loop(): one pass of the receive loop, recv() from any rank and mq_write.put
CC_main_recv ==
    /\ cc_pc = "recv"
    /\ \E r \in ChildRanks \ silent :
         /\ child_sent[r] < 1 + MaxTraffic
         /\ \E env \in ChildMessages(r, child_sent[r]) :
              /\ child_sent' = [child_sent EXCEPT ![r] = @ + 1]
              /\ mq_up' = Append(mq_up, CC_queue_item(env))
              /\ up_recv' = Append(up_recv, env)
    /\ UNCHANGED <<silent, ccVars, mq_down, scVars, up_taken, up_sent>>

\* a recv of the main thread raises (transport failure): the main thread ends,
\* the deal_queue thread, if started, is not touched
CC_recv_fails ==
    /\ cc_pc \in {"setup", "recv"}
    /\ cc_pc' = "dead"
    /\ cc_err' = "TransportFailure"
    /\ UNCHANGED <<child_sent, silent, cc_caller, cc_rank, rank_client_id_map, setup_recv,
                   coordinator, has_handler, client_num_in_total, cc_drain,
                   cc_drain_err, cc_last, cc_todo, mq_up, mq_down, scVars, up_recv, up_taken,
                   up_sent>>

\* a child rank that has sent nothing never sends anything: every recv(src=rank)
\* of setup() and every recv() of main_loop() waits for it without end
Child_never_sends ==
    /\ \E r \in ChildRanks \ silent :
         /\ child_sent[r] = 0
         /\ silent' = silent \cup {r}
    /\ UNCHANGED <<child_sent, ccVars, mq_up, mq_down, scVars, up_recv, up_taken, up_sent>>

\* the largest and the smallest value of torch.int32
MaxInt32 == 2147483647
MinInt32 == -MaxInt32 - 1

\* what .to(torch.int32) may yield for a float32 above every int32: the cast is
\* undefined, a build yields the "integer indefinite" value or saturates
Int32Undefined == {MinInt32, MaxInt32}

\* a float32 of spacing u holds every multiple of u up to u * 2^24
F32Fits(a, u) == \/ a \div Pow2(24) < u
                 \/ a \div Pow2(24) = u /\ a % Pow2(24) = 0

\* torch.Tensor(values) holds float32: an integer is kept exactly up to 2^24 and
\* rounded to the nearest multiple of the float's spacing (ties to even) beyond
RECURSIVE F32Spacing(_, _)
F32Spacing(a, u) == IF F32Fits(a, u) THEN u ELSE F32Spacing(a, 2 * u)

\* the float32 nearest to the magnitude a, as its count of multiples of u
F32(a, u) ==
    LET q == a \div u
        rem == a % u
    IN  IF 2 * rem > u \/ (2 * rem = u /\ q % 2 = 1) THEN q + 1 ELSE q

\* torch.Tensor([v]).to(torch.int32)[0]: the values the element may have.  The
\* float32 is 2^31 when its count of multiples exceeds MaxInt32 \div u; -2^31 is
\* an int32, 2^31 is not.
ToInt32(v) ==
    IF v = MinInt32 THEN {MinInt32}
    ELSE LET a == IF v < 0 THEN -v ELSE v
             u == F32Spacing(a, 1)
             n == F32(a, u)
         IN  IF n > MaxInt32 \div u
             THEN IF v < 0 THEN {MinInt32} ELSE Int32Undefined
             ELSE IF v < 0 THEN {-(n * u)} ELSE {n * u}

\* id_list = torch.Tensor(values).to(torch.int32): the tensors it may be
RECURSIVE ToInt32Tensor(_)
ToInt32Tensor(values) ==
    IF values = <<>> THEN {<<>>}
    ELSE {<<h>> \o t : h \in ToInt32(Head(values)), t \in ToInt32Tensor(Tail(values))}

\* the sends deal_queue may issue for one item of rank_dict
CC_send(entry, message_code, payload) ==
    {[dst |-> entry.rank, code |-> message_code, content |-> <<id_list>> \o payload] :
        id_list \in ToInt32Tensor(entry.values)}

\* the deal_queue thread after the pass over `todo` items of rank_dict: it is
\* in the send for the next item, or back at mq_read.get()
CC_deal_queue_next(todo) == IF todo = <<>> THEN "get" ELSE "send"

\* deal_queue(): mq_read.get(), the split of the payload and map_id_list, up to
\* the first send.  payload[0] of an empty payload (IndexError) and a failing
\* lookup raise out of the loop and end the thread.
CC_deal_queue ==
    /\ cc_drain = "get"
    /\ mq_down # <<>>
    /\ LET item == Head(mq_down) IN
       /\ mq_down' = Tail(mq_down)
       /\ cc_last' = [item |-> item, sends |-> <<>>]
       /\ IF Len(item.payload) = 0
          THEN /\ cc_drain' = "dead"
               /\ cc_drain_err' = "IndexError"
               /\ cc_todo' = <<>>
          ELSE IF UnknownIdentity(coordinator, item.payload[1])
          THEN /\ cc_drain' = "dead"
               /\ cc_drain_err' = "UnknownIdentity"
               /\ cc_todo' = <<>>
          ELSE /\ cc_todo' = map_id_list(coordinator, item.payload[1])
               /\ cc_drain' = CC_deal_queue_next(map_id_list(coordinator, item.payload[1]))
               /\ UNCHANGED cc_drain_err
    /\ UNCHANGED <<child_sent, silent, cc_pc, cc_caller, cc_rank, rank_client_id_map,
                   setup_recv, coordinator, has_handler, client_num_in_total, cc_err,
                   mq_up, scVars, up_recv, up_taken, up_sent>>

\* deal_queue(): one pass of the for loop over rank_dict.items().  The send for
\* the next item returns; the loop turns to the item after it, or, after the
\* last one, the thread is back at mq_read.get().
CC_deal_queue_send ==
    /\ cc_drain = "send"
    /\ \E snd \in CC_send(Head(cc_todo), cc_last.item.code, Tail(cc_last.item.payload)) :
         cc_last' = [cc_last EXCEPT !.sends = Append(@, snd)]
    /\ cc_todo' = Tail(cc_todo)
    /\ cc_drain' = CC_deal_queue_next(Tail(cc_todo))
    /\ UNCHANGED <<child_sent, silent, cc_pc, cc_caller, cc_rank, rank_client_id_map,
                   setup_recv, coordinator, has_handler, client_num_in_total, cc_err,
                   cc_drain_err, mq_up, mq_down, scVars, up_recv, up_taken, up_sent>>

\* the send deal_queue is in raises (transport failure): the sends before it are
\* done, the exception leaves the loop and ends the thread
CC_send_fails ==
    /\ cc_drain = "send"
    /\ cc_drain' = "dead"
    /\ cc_drain_err' = "TransportFailure"
    /\ UNCHANGED <<child_sent, silent, cc_pc, cc_caller, cc_rank, rank_client_id_map,
                   setup_recv, coordinator, has_handler, client_num_in_total, cc_err,
                   cc_last, cc_todo, mq_up, mq_down, scVars, up_recv, up_taken, up_sent>>

(***************************************************************************)
(* ServerConnector                                                         *)
(***************************************************************************)
\* setup(): super().setup(), no handshake
SC_setup ==
    /\ sc_pc = "init"
    /\ sc_pc' = "ready"
    /\ UNCHANGED <<child_sent, silent, ccVars, mq_up, mq_down, sc_drain, down_count,
                   down_last, sc_handled, up_recv, up_taken, up_sent>>

\* main_loop(): the deal_queue thread is started, then the receive loop is entered
SC_main_loop ==
    /\ sc_pc \in {"init", "ready"}
    /\ sc_drain' = "get"
    /\ sc_pc' = "recv"
    /\ UNCHANGED <<child_sent, silent, ccVars, mq_up, mq_down, down_count, down_last,
                   sc_handled, up_recv, up_taken, up_sent>>

\* the downward queue is given at most MaxDown tuples
DownBudget == down_count + sc_handled < MaxDown

SC_queue_item(env) == [sender |-> env.sender, code |-> env.code, payload |-> env.payload]

\* main_loop(): one pass of the receive loop, recv_package() and mq_write.put
SC_main_recv ==
    /\ sc_pc = "recv"
    /\ DownBudget
    /\ \E env \in DownEnvelopes :
         /\ down_last' = env
         /\ mq_down' = Append(mq_down, SC_queue_item(env))
    /\ down_count' = down_count + 1
    /\ UNCHANGED <<child_sent, silent, ccVars, mq_up, sc_pc, sc_drain, sc_handled,
                   up_recv, up_taken, up_sent>>

\* on_receive(sender, message_code, payload): the handler interface of the
\* connector, callable at any time from its construction on.  The tuple of its
\* arguments is put on mq_write; no recv_package is involved.
SC_on_receive ==
    /\ DownBudget
    /\ \E item \in HandlerTuples : mq_down' = Append(mq_down, item)
    /\ sc_handled' = sc_handled + 1
    /\ UNCHANGED <<child_sent, silent, ccVars, mq_up, sc_pc, sc_drain, down_count,
                   down_last, up_recv, up_taken, up_sent>>

\* recv_package() raises (transport failure): the main thread ends
SC_recv_fails ==
    /\ sc_pc = "recv"
    /\ sc_pc' = "dead"
    /\ UNCHANGED <<child_sent, silent, ccVars, mq_up, mq_down, sc_drain, down_count,
                   down_last, sc_handled, up_recv, up_taken, up_sent>>

\* (mutation) the item is sent back to the rank it came from
SC_send_ToSender(item) == [dst |-> item.sender, code |-> item.code, content |-> item.payload]

\* the send deal_queue issues for a dequeued item
SC_send(item) == [dst |-> 0, code |-> item.code, content |-> item.payload]

\* (mutation) the newest item of the queue is taken instead of the oldest
SC_deal_queue_Newest ==
    /\ sc_drain = "get"
    /\ mq_up # <<>>
    /\ mq_up' = SubSeq(mq_up, 1, Len(mq_up) - 1)
    /\ up_taken' = Append(up_taken, mq_up[Len(mq_up)])
    /\ sc_drain' = "send"
    /\ UNCHANGED <<child_sent, silent, ccVars, mq_down, sc_pc, down_count, down_last,
                   sc_handled, up_recv, up_sent>>

\* deal_queue(): sender, message_code, payload = self.mq_read.get(); the thread
\* goes on into the send of the item
SC_deal_queue ==
    /\ sc_drain = "get"
    /\ mq_up # <<>>
    /\ mq_up' = Tail(mq_up)
    /\ up_taken' = Append(up_taken, Head(mq_up))
    /\ sc_drain' = "send"
    /\ UNCHANGED <<child_sent, silent, ccVars, mq_down, sc_pc, down_count, down_last,
                   sc_handled, up_recv, up_sent>>

\* deal_queue(): the send to rank 0 of the item in hand, the last one taken,
\* returns and the thread is back at mq_read.get()
SC_deal_queue_send ==
    /\ sc_drain = "send"
    /\ up_sent' = Append(up_sent, SC_send(up_taken[Len(up_taken)]))
    /\ sc_drain' = "get"
    /\ UNCHANGED <<child_sent, silent, ccVars, mq_up, mq_down, sc_pc, down_count,
                   down_last, sc_handled, up_recv, up_taken>>

\* the send deal_queue is in raises (transport failure): the item is taken,
\* nothing is sent for it and the thread ends
SC_send_fails ==
    /\ sc_drain = "send"
    /\ sc_drain' = "dead"
    /\ UNCHANGED <<child_sent, silent, ccVars, mq_up, mq_down, sc_pc, down_count,
                   down_last, sc_handled, up_recv, up_taken, up_sent>>

(***************************************************************************)
(* Specifications                                                          *)
(***************************************************************************)
Init ==
    /\ PassiveInit
    /\ ActiveInit
    /\ RelayInit
    /\ CoordinatorInit

\* A client process runs one of the two managers: a step of one manager is taken
\* only while the other has not been run.  The relay stays as constructed.
ClientStep ==
    \/ Passive_init_network_connection /\ a_pc = "start" /\ UNCHANGED <<activeVars, relayVars, coVars>>
    \/ Passive_recv_package /\ a_pc = "start" /\ UNCHANGED <<activeVars, relayVars, coVars>>
    \/ Passive_on_receive /\ a_pc = "start" /\ UNCHANGED <<activeVars, relayVars, coVars>>
    \/ Passive_synchronize /\ a_pc = "start" /\ UNCHANGED <<activeVars, relayVars, coVars>>
    \/ Active_init_network_connection /\ p_pc = "start" /\ UNCHANGED <<passiveVars, relayVars, coVars>>
    \/ Active_request_model /\ p_pc = "start" /\ UNCHANGED <<passiveVars, relayVars, coVars>>
    \/ Active_recv_package /\ p_pc = "start" /\ UNCHANGED <<passiveVars, relayVars, coVars>>
    \/ Active_on_receive /\ p_pc = "start" /\ UNCHANGED <<passiveVars, relayVars, coVars>>
    \/ Active_synchronize /\ p_pc = "start" /\ UNCHANGED <<passiveVars, relayVars, coVars>>

RelayStep ==
    \/ CC_run_setup /\ UNCHANGED <<passiveVars, activeVars, coVars>>
    \/ CC_main_loop /\ UNCHANGED <<passiveVars, activeVars, coVars>>
    \/ CC_setup_recv /\ UNCHANGED <<passiveVars, activeVars, coVars>>
    \/ CC_main_recv /\ UNCHANGED <<passiveVars, activeVars, coVars>>
    \/ CC_deal_queue /\ UNCHANGED <<passiveVars, activeVars, coVars>>
    \/ CC_deal_queue_send /\ UNCHANGED <<passiveVars, activeVars, coVars>>
    \/ SC_setup /\ UNCHANGED <<passiveVars, activeVars, coVars>>
    \/ SC_main_loop /\ UNCHANGED <<passiveVars, activeVars, coVars>>
    \/ SC_main_recv /\ UNCHANGED <<passiveVars, activeVars, coVars>>
    \/ SC_deal_queue /\ UNCHANGED <<passiveVars, activeVars, coVars>>
    \/ SC_deal_queue_send /\ UNCHANGED <<passiveVars, activeVars, coVars>>

\* transport failures: a blocking recv or a send of the transport group raises
FaultStep ==
    \/ CC_recv_fails /\ UNCHANGED <<passiveVars, activeVars, coVars>>
    \/ CC_send_fails /\ UNCHANGED <<passiveVars, activeVars, coVars>>
    \/ SC_recv_fails /\ UNCHANGED <<passiveVars, activeVars, coVars>>
    \/ SC_send_fails /\ UNCHANGED <<passiveVars, activeVars, coVars>>

\* a call of the ServerConnector's handler interface
HandlerStep ==
    \/ SC_on_receive /\ UNCHANGED <<passiveVars, activeVars, coVars>>

\* the lower transport group: a child rank may stay silent from the start
SilentStep ==
    \/ Child_never_sends /\ UNCHANGED <<passiveVars, activeVars, coVars>>

\* a Coordinator on its own: it is constructed, then queried
CoordinatorStep ==
    \/ Coordinator_build /\ UNCHANGED <<passiveVars, activeVars, relayVars>>
    \/ Coordinator_map_id_list /\ UNCHANGED <<passiveVars, activeVars, relayVars>>

\* a client process: the passive or the active manager
SpecClient == Init /\ [][ClientStep]_vars
\* the relay over a transport that never fails
Spec == Init /\ [][RelayStep]_vars
\* the relay whose ServerConnector is also fed through on_receive
SpecHandler == Init /\ [][RelayStep \/ HandlerStep]_vars
\* the relay over a transport whose recv and send may raise
SpecFaults == Init /\ [][RelayStep \/ FaultStep]_vars
\* the relay with every enabled step eventually taken: the transport delivers
\* and both threads of each connector are scheduled
FairSpec == Spec /\ WF_vars(RelayStep)
\* the Coordinator's operations on bounded inputs
SpecCoordinator == Init /\ [][CoordinatorStep]_vars
\* the same, with child ranks that may never send
FairSpecSilent == Init /\ [][RelayStep \/ SilentStep]_vars /\ WF_vars(RelayStep)

(***************************************************************************)
(* Properties of the client managers (checked under SpecClient)            *)
(***************************************************************************)
IsRecv(e) == e.ev = "recv"
IsSend(e) == e.ev = "send"
IsTrain(e) == e.ev = "train"
IsExitRecv(e) == e.ev = "recv" /\ e.code = Exit

\* in either manager, an Exit envelope is the last event of the process
ExitIsLast(trace, pc) ==
    \A i \in DOMAIN trace :
        IsExitRecv(trace[i]) => (i = Len(trace) /\ pc = "exited")

\* C1: for both the passive and the active client loop, once an envelope with
\* code Exit has been received the process is terminated and nothing more has
\* happened: no send (ParameterUpdate or ParameterRequest) follows the receipt
\* of Exit in any execution.
C1_NoSendAfterExit ==
    /\ ExitIsLast(p_trace, p_pc)
    /\ ExitIsLast(a_trace, a_pc)
    /\ (p_pc = "exited") => IsExitRecv(p_trace[Len(p_trace)])
    /\ (a_pc = "exited") => IsExitRecv(a_trace[Len(a_trace)])

\* the active client has exited on an Exit that carries a payload, after a full round
C1_Witness ==
    /\ a_pc = "exited"
    /\ a_trace[Len(a_trace)].content # <<>>
    /\ NumEv(a_trace, "send") >= 3

\* the passive client has exited on an Exit that carries a payload, after a full round
C1_WitnessPassive ==
    /\ p_pc = "exited"
    /\ p_trace[Len(p_trace)].content # <<>>
    /\ NumEv(p_trace, "send") >= 1

\* index of the last envelope received before position i of the trace (0: none)
LastRecvBefore(trace, i) ==
    LET js == {j \in 1..(i - 1) : IsRecv(trace[j])} IN
    IF js = {} THEN 0 ELSE CHOOSE j \in js : \A k \in js : k <= j

IsUpdateSend(e) == IsSend(e) /\ e.code = ParameterUpdate

\* C4: every ParameterUpdate the active client sends carries, as its second
\* payload element, the generation timestamp that is the second payload element
\* of the most recently received envelope, which is not an Exit.
C4_TimestampPassThrough ==
    \A i \in DOMAIN a_trace :
        IsUpdateSend(a_trace[i]) =>
            LET j == LastRecvBefore(a_trace, i) IN
            /\ j > 0
            /\ a_trace[j].code # Exit
            /\ Len(a_trace[i].content) = 2
            /\ a_trace[i].content[2] = a_trace[j].content[2]

\* two updates were sent with different timestamps, and in the later round the
\* received parameters differ from the received timestamp
C4_Witness ==
    \E i, j \in DOMAIN a_trace :
        /\ i < j
        /\ IsUpdateSend(a_trace[i])
        /\ IsUpdateSend(a_trace[j])
        /\ a_trace[i].content[2] # a_trace[j].content[2]
        /\ a_trace[j - 2].content[1] # a_trace[j - 2].content[2]

\* the kind of the i-th transport event of the active client
ActiveShape(trace, i) ==
    CASE (i - 1) % 4 = 0 ->
            /\ IsSend(trace[i])
            /\ trace[i].code = ParameterRequest
            /\ trace[i].peer = 0
      [] (i - 1) % 4 = 1 ->
            /\ IsRecv(trace[i])
            /\ (trace[i].code = Exit => i = Len(trace))
      [] (i - 1) % 4 = 2 -> IsTrain(trace[i])
      [] OTHER ->
            /\ IsUpdateSend(trace[i])
            /\ trace[i].peer = 0

NumRequests(trace) ==
    Cardinality({i \in DOMAIN trace : IsSend(trace[i]) /\ trace[i].code = ParameterRequest})
NumUpdates(trace) == Cardinality({i \in DOMAIN trace : IsUpdateSend(trace[i])})
NumNonExitRecv(trace) ==
    Cardinality({i \in DOMAIN trace : IsRecv(trace[i]) /\ trace[i].code # Exit})

\* C5: the events of the active client follow the order
\* (send ParameterRequest, receive, [train, send ParameterUpdate])*; at most one
\* ParameterRequest is outstanding without a received envelope; and at the top
\* of the loop the ParameterUpdate sends are as many as the non-Exit envelopes
\* received (never more, and at most one fewer while a round is in progress).
C5_ActiveAlternation ==
    /\ \A i \in DOMAIN a_trace : ActiveShape(a_trace, i)
    /\ NumRequests(a_trace) - NumEv(a_trace, "recv") \in {0, 1}
    /\ NumUpdates(a_trace) <= NumNonExitRecv(a_trace)
    /\ NumNonExitRecv(a_trace) <= NumUpdates(a_trace) + 1
    /\ (a_pc = "request") => NumUpdates(a_trace) = NumNonExitRecv(a_trace)
    /\ (a_pc = "recv") => NumRequests(a_trace) = NumEv(a_trace, "recv") + 1

\* two complete rounds and a third request under way
C5_Witness ==
    /\ a_pc = "recv"
    /\ NumUpdates(a_trace) = 2
    /\ NumRequests(a_trace) = 3

\* the kind of the i-th transport event of the passive client
PassiveShape(trace, i) ==
    CASE (i - 1) % 3 = 0 ->
            /\ IsRecv(trace[i])
            /\ trace[i].peer = 0
            /\ (trace[i].code = Exit => i = Len(trace))
      [] (i - 1) % 3 = 1 -> IsTrain(trace[i])
      [] OTHER ->
            /\ IsUpdateSend(trace[i])
            /\ trace[i].peer = 0
            /\ Len(trace[i].content) = 1

\* C6: the passive client sends nothing before it has received an envelope from
\* rank 0; every send is one ParameterUpdate to rank 0 that directly follows the
\* training step of one received non-Exit envelope, so sends and non-Exit
\* receives correspond one to one, the receive first.
C6_PassiveReactive ==
    /\ \A i \in DOMAIN p_trace : PassiveShape(p_trace, i)
    /\ NumEv(p_trace, "send") <= NumNonExitRecv(p_trace)
    /\ NumNonExitRecv(p_trace) <= NumEv(p_trace, "send") + 1
    /\ (p_pc = "recv") => NumEv(p_trace, "send") = NumNonExitRecv(p_trace)

\* two envelopes were answered and the client waits for the third
C6_Witness ==
    /\ p_pc = "recv"
    /\ NumEv(p_trace, "send") = 2

(***************************************************************************)
(* Properties of the relay (checked under Spec, SpecFaults and FairSpec)   *)
(***************************************************************************)
\* deal_queue has taken an item whose leading payload element names known ids
\* only, and is through with it: the for loop is over, the thread is back at get
DrainedKnownIds ==
    /\ cc_last.item # NoItem
    /\ cc_drain = "get"
    /\ Len(cc_last.item.payload) > 0
    /\ \A k \in DOMAIN cc_last.item.payload[1] :
           \E r \in DOMAIN coordinator : cc_last.item.payload[1][k] \in coordinator[r]

\* C2: for a dequeued item whose leading payload element is a list of known
\* LogicalIds, deal_queue issues one send per distinct owning rank (none for an
\* empty list, none to a rank that owns no requested id); the send to rank r
\* carries first the requested ids owned by r, in their order, then the rest of
\* the payload unchanged, with the item's message code.
C2_FanOut ==
    DrainedKnownIds =>
        LET ids == cc_last.item.payload[1]
            rest == Tail(cc_last.item.payload)
            S == cc_last.sends
        IN
        /\ \A i, j \in DOMAIN S : i # j => S[i].dst # S[j].dst
        /\ {S[i].dst : i \in DOMAIN S} =
               {r \in DOMAIN coordinator : \E k \in DOMAIN ids : ids[k] \in coordinator[r]}
        /\ \A i \in DOMAIN S :
               /\ S[i].code = cc_last.item.code
               /\ S[i].content =
                      <<SelectSeq(ids, LAMBDA x : x \in coordinator[S[i].dst])>> \o rest

\* a broadcast naming two LogicalIds of one rank was forwarded with a single send
C2_Witness ==
    /\ DrainedKnownIds
    /\ Len(cc_last.item.payload[1]) = 2
    /\ Len(cc_last.sends) = 1
    /\ Len(cc_last.sends[1].content[1]) = 2

\* a broadcast naming one LogicalId of each of two ranks was forwarded with two sends
C2_WitnessTwoRanks ==
    /\ DrainedKnownIds
    /\ Len(cc_last.sends) = 2

\* C3: the envelopes ClientConnector.main_loop received, in their order of
\* arrival, are forwarded by ServerConnector.deal_queue in exactly that order:
\* the i-th send to the server carries the code and payload of the i-th envelope
\* received, under every interleaving of the two threads.
C3_FIFO ==
    /\ Len(up_sent) <= Len(up_recv)
    /\ \A i \in DOMAIN up_sent :
           /\ up_sent[i].code = up_recv[i].code
           /\ up_sent[i].content = up_recv[i].payload

\* three envelopes were forwarded, two of them from the same child rank
C3_Witness ==
    /\ Len(up_sent) >= 3
    /\ \E i, j \in DOMAIN up_sent : i < j /\ up_recv[i].sender = up_recv[j].sender

\* the queue held two envelopes at once: the threads did interleave
C3_WitnessQueued ==
    /\ Len(mq_up) >= 2
    /\ Len(up_sent) >= 1

AllRanksInOrder == [i \in 1..(world_size - 1) |-> i]

\* C7: a call of ClientConnector.setup() receives exactly one message from every
\* rank in [1, world_size), in rank order, builds the Coordinator from the values
\* received and, when a handler is attached, sets its client_num_in_total to the
\* Coordinator's total; nothing is put on the outbound queue and deal_queue
\* sends nothing (it is not even started) before those messages are all received.
C7_Setup ==
    /\ (cc_pc \in {"ready", "recv"}) =>
           /\ setup_recv = AllRanksInOrder
           /\ coordinator # NoCoordinator
           /\ DOMAIN coordinator = ChildRanks
           /\ \A r \in ChildRanks : coordinator[r] = {rank_client_id_map[r]}
           /\ has_handler =>
                  client_num_in_total =
                      Cardinality(UNION {coordinator[r] : r \in ChildRanks})
           /\ ~has_handler => client_num_in_total = NoneVal
    /\ (coordinator = NoCoordinator) =>
           /\ mq_up = <<>>
           /\ up_recv = <<>>
           /\ cc_last = NoLast
           /\ cc_drain = "unstarted"
           /\ client_num_in_total = NoneVal
    /\ (mq_up # <<>> \/ up_recv # <<>> \/ cc_last # NoLast \/ cc_drain # "unstarted") =>
           setup_recv = AllRanksInOrder

\* setup is over with a handler attached, the total is 2, and both forwarding
\* directions have been used
C7_Witness ==
    /\ has_handler
    /\ cc_pc = "recv"
    /\ client_num_in_total = 2
    /\ mq_up # <<>>
    /\ cc_last # NoLast

\* an envelope with code Exit has reached the relay: it is in the downward queue
\* or was the last item ClientConnector.deal_queue took
ExitReceived ==
    \/ \E i \in DOMAIN mq_down : mq_down[i].code = Exit
    \/ cc_last.item.code = Exit
ExitDequeued == cc_last.item.code = Exit

\* a deal_queue thread is alive while it waits in mq_read.get() or in a send
DrainAlive(drain) == drain \in {"get", "send"}

SC_stopped == sc_pc # "recv" /\ ~DrainAlive(sc_drain)
CC_stopped == cc_pc # "recv" /\ ~DrainAlive(cc_drain)

\* C8: after a relay has received (ServerConnector) or dequeued (ClientConnector)
\* an envelope with code Exit, both its receive loop and its deal_queue thread
\* eventually stop.
C8_ExitStopsRelay ==
    /\ [](ExitReceived => <>SC_stopped)
    /\ [](ExitDequeued => <>CC_stopped)

\* C9: in neither connector is one of the two threads ended by an exception
\* while the other keeps running.
C9_NoPartialLife ==
    /\ ~(cc_pc = "dead" /\ DrainAlive(cc_drain))
    /\ ~(cc_drain = "dead" /\ cc_pc = "recv")
    /\ ~(sc_pc = "dead" /\ DrainAlive(sc_drain))
    /\ ~(sc_drain = "dead" /\ sc_pc = "recv")

\* C10: when deal_queue takes a broadcast naming a LogicalId the Coordinator does
\* not know, no send is issued for it and the failure is confined to that one
\* forwarding attempt: the deal_queue thread goes on to the next queued message.
C10_UnknownIdentityConfined ==
    (cc_drain_err = "UnknownIdentity") =>
        /\ cc_last.sends = <<>>
        /\ cc_drain = "get"

(***************************************************************************)
(* Lifecycle and handshake failures                                        *)
(***************************************************************************)
\* C11: main_loop() on a connector whose setup() has not completed fails with
\* LifecycleViolation: it neither enters the receive loop nor starts the
\* deal_queue thread, and no main-loop receive happens before setup() is over.
C11_MainLoopNeedsSetup ==
    [][ /\ (sc_pc = "init" => (sc_pc' # "recv" /\ sc_drain' = sc_drain))
        /\ (cc_pc = "init" => ~(cc_pc' = "setup" /\ cc_caller' = "main_loop"))
        /\ (cc_pc' = "recv" => coordinator' # NoCoordinator) ]_vars

\* C12: if some child rank never sends its identity declaration, setup() fails
\* with IncompleteHandshake (the error is eventually reached) and the relay
\* never enters its main receive loop.
C12_IncompleteHandshake ==
    /\ [](silent # {} => <>(cc_err = "IncompleteHandshake"))
    /\ [](silent # {} => [](cc_pc # "recv"))

\* the handshake of the setup() call in progress is over and two ranks declared
\* the same LogicalId
DuplicateDeclared ==
    /\ cc_rank = 0
    /\ DOMAIN rank_client_id_map = ChildRanks
    /\ DuplicateIdentity(rank_client_id_map)

\* C13: if two different child ranks declare overlapping LogicalIds, building the
\* Coordinator fails with DuplicateIdentity and the relay does not proceed to
\* forwarding (no receive loop, no deal_queue thread, nothing queued or sent);
\* so whenever a Coordinator is in place each LogicalId belongs to one rank only.
C13_DuplicateIdentity ==
    /\ DuplicateDeclared =>
           /\ cc_pc = "dead"
           /\ cc_err = "DuplicateIdentity"
           /\ cc_drain = "unstarted"
           /\ mq_up = <<>>
           /\ up_recv = <<>>
           /\ cc_last = NoLast
    /\ (coordinator # NoCoordinator) =>
           \A id \in KnownIds(coordinator) :
               Cardinality({r \in DOMAIN coordinator : id \in coordinator[r]}) = 1

\* both ranks declared the same LogicalId while a broadcast of the server was
\* already waiting in the downward queue
C13_Witness ==
    /\ DuplicateDeclared
    /\ cc_err = "DuplicateIdentity"
    /\ mq_down # <<>>

(***************************************************************************)
(* Forwarding                                                              *)
(***************************************************************************)
\* the items ServerConnector.deal_queue took and is through with: all of them
\* but the one whose send is in progress
SC_items_done == Len(up_taken) - (IF sc_drain = "send" THEN 1 ELSE 0)

\* C14: every item ServerConnector.deal_queue takes off its queue is forwarded
\* with exactly one send, to rank 0, whose message code and payload are the
\* item's; the thread sends to no other rank, and of the item only the sender
\* rank is not carried.
C14_UpwardDrain ==
    /\ Len(up_sent) = SC_items_done
    /\ \A i \in DOMAIN up_sent :
           up_sent[i] = [dst |-> 0,
                         code |-> up_taken[i].code,
                         content |-> up_taken[i].payload]

\* items of both child ranks were taken and sent, and another one is waiting
C14_Witness ==
    /\ mq_up # <<>>
    /\ \E i, j \in DOMAIN up_sent :
           /\ up_taken[i].sender = 1
           /\ up_taken[j].sender = 2
           /\ up_sent[i].content # up_sent[j].content

(***************************************************************************)
(* Properties of the Coordinator (checked under SpecCoordinator)           *)
(***************************************************************************)
RECURSIVE SumOfSizes(_, _)
SumOfSizes(handshake, ranks) ==
    IF ranks = {} THEN 0
    ELSE LET r == CHOOSE x \in ranks : TRUE
         IN  Cardinality(handshake[r]) + SumOfSizes(handshake, ranks \ {r})

SeqRange(q) == {q[i] : i \in DOMAIN q}

\* the last call of map_id_list succeeded on a list naming every known
\* LogicalId exactly once
CalledOnUniverse ==
    /\ co_call.err = "none"
    /\ SeqRange(co_call.ids) = KnownIds(co_map)
    /\ Len(co_call.ids) = Cardinality(KnownIds(co_map))

\* C15: for every handshake in which the ranks report pairwise disjoint
\* LogicalId sets, total() is the sum of the set sizes, and mapIdList applied to
\* a list of all known LogicalIds returns the original grouping: the same ranks,
\* each once, and for each rank exactly its own ids.
C15_TotalAndRoundTrip ==
    (co_handshake # <<>> /\ ~Overlapping(co_handshake)) =>
        /\ co_map # NoCoordinator
        /\ co_total = SumOfSizes(co_handshake, DOMAIN co_handshake)
        /\ CalledOnUniverse =>
               /\ Len(co_call.out) = Cardinality(DOMAIN co_handshake)
               /\ {co_call.out[i].rank : i \in DOMAIN co_call.out} = DOMAIN co_handshake
               /\ \A i \in DOMAIN co_call.out :
                      /\ SeqRange(co_call.out[i].values) = co_handshake[co_call.out[i].rank]
                      /\ Len(co_call.out[i].values) =
                             Cardinality(co_handshake[co_call.out[i].rank])

\* a rank that owns two LogicalIds and a rank that owns one: the list of all
\* three ids, the single-id rank named first, came back as two groups
C15_Witness ==
    /\ CalledOnUniverse
    /\ co_total = 3
    /\ Len(co_call.out) = 2
    /\ Len(co_call.out[1].values) = 1
    /\ Len(co_call.out[2].values) = 2

\* q is p with some elements left out, the others in their order
RECURSIVE IsSubSeq(_, _)
IsSubSeq(q, p) ==
    IF q = <<>> THEN TRUE
    ELSE IF p = <<>> THEN FALSE
    ELSE IF Head(q) = Head(p) THEN IsSubSeq(Tail(q), Tail(p))
    ELSE IsSubSeq(q, Tail(p))

\* C16: mapIdList preserves order and is deterministic: every returned group
\* holds the input's ids of its rank, all of them, in the input's order, and no
\* rank is returned twice (so the mapping and the input list leave no choice
\* about the result); a call leaves the mapping as it was built.
C16_OrderAndDeterminism ==
    /\ (co_map # NoCoordinator) => co_map = co_handshake
    /\ (co_call.err = "none") =>
           /\ \A i \in DOMAIN co_call.out :
                  /\ IsSubSeq(co_call.out[i].values, co_call.ids)
                  /\ Len(co_call.out[i].values) =
                         Cardinality({k \in DOMAIN co_call.ids :
                                         co_call.ids[k] \in co_map[co_call.out[i].rank]})
           /\ \A i, j \in DOMAIN co_call.out :
                  i # j => co_call.out[i].rank # co_call.out[j].rank
           /\ {co_call.out[i].rank : i \in DOMAIN co_call.out} =
                  {r \in DOMAIN co_map : \E k \in DOMAIN co_call.ids :
                                            co_call.ids[k] \in co_map[r]}

\* a call whose input names two different ids of one rank, the larger id first,
\* with an id of the other rank between them
C16_Witness ==
    /\ co_call.err = "none"
    /\ Len(co_call.ids) = 3
    /\ co_call.ids[1] > co_call.ids[3]
    /\ Len(co_call.out) = 2
    /\ co_call.out[1].values = <<co_call.ids[1], co_call.ids[3]>>

\* C17: once the Coordinator is built from one declared integer per rank, the
\* union of the ranks' LogicalId sets is {0, ..., total-1} without gaps,
\* whatever integers were declared.
C17_Dense ==
    (co_map # NoCoordinator /\ \A r \in DOMAIN co_map : Cardinality(co_map[r]) = 1) =>
        KnownIds(co_map) = 0..(co_total - 1)

(***************************************************************************)
(* Lifecycle order, receive loops, handshake                               *)
(***************************************************************************)
\* the lifecycle states in their order
ParticipantStates ==
    <<"Uninitialized", "Ready", "Running", "ShuttingDown", "Terminated">>

StateIndex(name) == CHOOSE i \in DOMAIN ParticipantStates : ParticipantStates[i] = name

\* the position in the lifecycle of a connector's main thread: Uninitialized
\* until its setup() has returned, Ready between setup() and main_loop(),
\* Running in the receive loop, Terminated once the thread has ended
ParticipantState(pc) ==
    CASE pc \in {"init", "setup"} -> StateIndex("Uninitialized")
      [] pc = "ready" -> StateIndex("Ready")
      [] pc = "recv" -> StateIndex("Running")
      [] OTHER -> StateIndex("Terminated")

\* C18: the ParticipantState of every participant only moves forward through
\* Uninitialized, Ready, Running, ShuttingDown, Terminated: no step takes a
\* participant back to an earlier state, so no state is entered twice.
C18_ForwardOnly ==
    [][ /\ ParticipantState(cc_pc') >= ParticipantState(cc_pc)
        /\ ParticipantState(sc_pc') >= ParticipantState(sc_pc) ]_vars

QueueTuple(env) == [sender |-> env.sender, code |-> env.code, payload |-> env.payload]

\* C19: each pass of a connector's receive loop puts exactly one tuple
\* (sender, code, payload) of the envelope just received at the end of its write
\* queue, and does nothing else: nothing is sent, nothing is taken from a queue.
\* A call of ServerConnector.on_receive puts one tuple at the end of the queue
\* and does nothing else either.  A queue only ever changes by such a put or by
\* its reader taking the head.
C19_PureForwarding ==
    [][ /\ (up_recv' # up_recv) =>
               /\ Len(up_recv') = Len(up_recv) + 1
               /\ mq_up' = Append(mq_up, QueueTuple(up_recv'[Len(up_recv')]))
               /\ up_sent' = up_sent
               /\ cc_last' = cc_last
               /\ mq_down' = mq_down
        /\ (down_count' # down_count) =>
               /\ mq_down' = Append(mq_down, QueueTuple(down_last'))
               /\ up_sent' = up_sent
               /\ cc_last' = cc_last
               /\ mq_up' = mq_up
        /\ (sc_handled' # sc_handled) =>
               /\ Len(mq_down') = Len(mq_down) + 1
               /\ mq_down' = Append(mq_down, mq_down'[Len(mq_down')])
               /\ down_count' = down_count
               /\ up_sent' = up_sent
               /\ cc_last' = cc_last
               /\ mq_up' = mq_up
        /\ (up_recv' = up_recv /\ mq_up' # mq_up) => mq_up' = Tail(mq_up)
        /\ (down_count' = down_count /\ sc_handled' = sc_handled /\ mq_down' # mq_down) =>
               mq_down' = Tail(mq_down)
      ]_vars

\* both loops have queued envelopes: two of different child ranks are waiting
\* in the upward queue and a broadcast with content is in the downward queue
C19_Witness ==
    /\ Len(mq_up) >= 2
    /\ mq_up[1].sender # mq_up[2].sender
    /\ mq_down # <<>>
    /\ mq_down[1].payload # <<>>
    /\ mq_down[1] = QueueTuple(down_last)

\* envelopes of child rank r that went through the receive loop
ForwardedFrom(r) == Cardinality({i \in DOMAIN up_recv : up_recv[i].sender = r})

\* C20: with setup() called before main_loop(), the ClientConnector consumes one
\* identity declaration per child rank in its whole life: every later envelope
\* of a child goes through the receive loop to the outbound queue, none is
\* taken as a handshake value, and once the Coordinator is built the connector
\* is never again waiting for a declaration.
C20_HandshakeOnce ==
    /\ \A r \in ChildRanks :
           child_sent[r] > 0 => child_sent[r] = 1 + ForwardedFrom(r)
    /\ ~(cc_pc = "setup" /\ coordinator # NoCoordinator)

(***************************************************************************)
(* The two threads of the ClientConnector, and the composed bridge         *)
(***************************************************************************)
\* the Coordinator is in place and holds every expected rank
CoordinatorComplete ==
    /\ coordinator # NoCoordinator
    /\ DOMAIN coordinator = ChildRanks

\* C21: the deal_queue thread is never started before setup() has returned:
\* whenever the thread exists, and so at every read of self.coordinator it
\* makes, no setup() is in progress and the Coordinator is built with every
\* expected rank; an item is only ever taken with the Coordinator in place.
C21_SetupBeforeDrain ==
    /\ (cc_drain # "unstarted") =>
           /\ CoordinatorComplete
           /\ cc_pc \notin {"init", "setup", "ready"}
    /\ (cc_last # NoLast) => CoordinatorComplete

\* the deal_queue thread has read the Coordinator for a broadcast to both ranks
\* while the main thread is in its receive loop
C21_Witness ==
    /\ cc_drain = "get"
    /\ cc_pc = "recv"
    /\ Len(cc_last.sends) = 2

\* the k-th envelope child rank r sends after its declaration
TrafficPayload(r, k) == <<<<10 * r + k>>>>

SentUpward(r, k) ==
    {i \in DOMAIN up_sent :
        up_sent[i].dst = 0 /\ up_sent[i].code = ParameterUpdate
                           /\ up_sent[i].content = TrafficPayload(r, k)}

\* C22: through the composed bridge, every envelope a child rank has sent after
\* its declaration is eventually sent to rank 0 of the upper transport group,
\* with its code and payload, and never more than once.
C22_UpwardDelivery ==
    /\ \A r \in ChildRanks : \A k \in 1..MaxTraffic :
           [](child_sent[r] > k => <>(SentUpward(r, k) # {}))
    /\ [](\A r \in ChildRanks : \A k \in 1..MaxTraffic :
             Cardinality(SentUpward(r, k)) <= 1)

\* the same delivery, for the behaviours in which main_loop() is called on a
\* freshly constructed ClientConnector (no setup() call by a driver before it)
C22_DirectPathDelivery == <>(cc_caller = "run") \/ C22_UpwardDelivery

====
